---- MODULE Spec2Model ----
(***************************************************************************)
(* Dual-model translation merge engine of the NYC dubbing QA backend:      *)
(* TranslationService (services/translation.service.ts) and its caller     *)
(* translateVideo (controllers/translation.controller.ts).                 *)
(*                                                                         *)
(* Representation of data                                                  *)
(*   - A string is represented by the token array that split(/\s+/)        *)
(*     returns for it: a non-empty sequence of tokens, the token 0 being   *)
(*     the empty string "" (so "" is <<0>>, and a string with leading or   *)
(*     trailing whitespace starts or ends with the token 0).  A word is a  *)
(*     non-zero integer: w > 0 is a word in lower case, -w the same word   *)
(*     with a capital letter.                                              *)
(*   - A JavaScript number that is a quotient of two integers is kept as   *)
(*     the pair <<n, d>> of the two.  Confidences and thresholds are kept  *)
(*     in hundredths (0.95 is 95).  The double n/d is the correctly        *)
(*     rounded quotient and the literals 0.9 and 0.7 are the correctly     *)
(*     rounded 9/10 and 7/10, so for set sizes below 2^49 the comparison   *)
(*     of doubles agrees with the comparison of the exact fractions.       *)
(*   - One atomic step of the model is one run-to-completion turn of the   *)
(*     event loop: the settlement of an outstanding API call together with *)
(*     every continuation (microtask) that settlement makes runnable.      *)
(***************************************************************************)
EXTENDS Integers, Sequences, FiniteSets, TLC

VARIABLES
    pc,         \* where the translateVideo handler is
    segments,   \* the segments array of the request being served
    targetLanguage, \* the language name translateWithContext works with
    idx,        \* position of the for-of loop of translateWithContext
    calls,      \* every API call issued so far, in issue order
    results,    \* the results array of translateWithContext
    response,   \* the HTTP response sent by translateVideo, NoResponse before
    unit,       \* a single invocation of one of the synchronous functions
    review,     \* the QA review step of the frontend (App.tsx)
    suspended   \* a second translateVideo request, while it is not running

vars == <<pc, segments, targetLanguage, idx, calls, results, response, unit,
          review, suspended>>

\* message.content of a completion that carries no text (null)
NoContent == << >>

\* the value of a promise that has not been fulfilled
NoValue == [settled |-> FALSE]

\* no response sent yet
NoResponse == [status |-> 0]

\* the frontend before a video is uploaded
NoReview ==
    [ client |-> "none", currentStep |-> 1, translations |-> << >>,
      approving |-> << >>, generating |-> 0, audio |-> << >> ]

\* no second request
NoSuspended == [id |-> 0]

(***************************************************************************)
(* Bounds of the exploration.                                              *)
(***************************************************************************)
MaxSegs == 2

\* longest text, in words, handed to a synchronous function on its own
MaxLen == 3

\* most segments handed to batchTranslate
MaxBatchSegs == 6

\* most translations in a response whose overall confidence is computed on
\* its own
MaxBatch == 3

(***************************************************************************)
(* Numbers.                                                                *)
(***************************************************************************)
\* The quotient n / d of two integers (0/0 is NaN).
Ratio(n, d) == <<n, d>>

\* x = y for two quotients with positive denominators
SameRatio(x, y) == x[1] * y[2] = y[1] * x[2]

\* x > h/100 for a quotient x and a number given in hundredths.
GreaterThan(x, h) == x[1] * 100 > h * x[2]

(***************************************************************************)
(* Arithmetic on doubles.  Where a sum or a quotient of confidences is     *)
(* computed, the rounding of IEEE 754 binary64 is kept: a double x is the  *)
(* triple <<h, d, e>> with x = h / (100 d) + (e / d) u, the unit u being   *)
(* 2^-55 / 25, so that 1/100 is 2^53 u and the spacing of the doubles is   *)
(* 100 u in [0.5, 1), 200 u in [1, 2), 400 u in [2, 4) and 800 u in        *)
(* [4, 8).  The part e is the rounding error, a small integer; the         *)
(* remainders that rounding needs are computed modulo the spacing.         *)
(***************************************************************************)
\* 2^k mod m, by squaring
RECURSIVE Pow2Mod(_, _)
Pow2Mod(k, m) ==
    IF k = 0 THEN 1 % m
    ELSE IF k % 2 = 1 THEN (2 * Pow2Mod(k - 1, m)) % m
    ELSE CHOOSE q \in {(p * p) % m : p \in {Pow2Mod(k \div 2, m)}} : TRUE

\* (h 2^53 + e) mod m: the exact value h/100 + e u, in units of u, modulo m
UnitsMod(h, e, m) == ((h % m) * Pow2Mod(53, m) + (e % m)) % m

\* the spacing of the doubles around n/(100 d), a value in [0.5, 8)
Spacing(h, d, e) ==
    IF h < 100 * d \/ (h = 100 * d /\ e < 0) THEN 100
    ELSE IF h < 200 * d \/ (h = 200 * d /\ e < 0) THEN 200
    ELSE IF h < 400 * d \/ (h = 400 * d /\ e < 0) THEN 400
    ELSE 800

\* round-to-nearest, ties to even, of the exact value (h/100 + e u) / d:
\* the double <<h, d, e'>>
RoundToDouble(h, d, e) ==
    IF h = 0 /\ e = 0 THEN <<0, d, 0>>
    ELSE LET g == d * Spacing(h, d, e)
             r == UnitsMod(h, e, g)
             odd == UnitsMod(h, e, 2 * g) >= g
         IN  IF 2 * r < g \/ (2 * r = g /\ ~odd)
             THEN <<h, d, e - r>>
             ELSE <<h, d, e - r + g>>

\* the double that the decimal literal h/100 denotes
DoubleOf(h) == RoundToDouble(h, 1, 0)

\* x + y for two doubles with d = 1
DoubleAdd(x, y) ==
    CHOOSE z \in {RoundToDouble(a[1] + b[1], 1, a[3] + b[3]) : a \in {x}, b \in {y}} :
        TRUE

\* x / n for a double x with d = 1 and an integer n; 0/0 is NaN
NaN == <<0, 0, 0>>
DoubleDivide(x, n) ==
    IF n = 0 THEN NaN
    ELSE CHOOSE z \in {RoundToDouble(a[1], n, a[3]) : a \in {x}} : TRUE

(***************************************************************************)
(* Strings.                                                                *)
(***************************************************************************)
EmptyString == <<0>>

\* String.prototype.trim: split(/\s+/) yields at most one empty token at
\* either end of a string
Trim(s) ==
    LET first == IF s[1] = 0 THEN 2 ELSE 1
        last == IF s[Len(s)] = 0 THEN Len(s) - 1 ELSE Len(s)
    IN  IF first > last THEN EmptyString ELSE SubSeq(s, first, last)

\* String.prototype.toLowerCase on one token
ToLowerCase(tok) == IF tok < 0 THEN -tok ELSE tok

\* new Set(text.split(/\s+/)), without toLowerCase
WordSetCaseSensitive(text) == {text[i] : i \in DOMAIN text}

\* new Set(text.toLowerCase().split(/\s+/))
WordSet(text) == {ToLowerCase(text[i]) : i \in DOMAIN text}

\* text.split(/\s+/).length
WordCount(text) == Len(text)

(***************************************************************************)
(* Inputs: what the external services may answer.                          *)
(***************************************************************************)
\* the lower-case words w1 .. wn, as one string
Phrase(n) == [i \in 1..n |-> i]

\* the same string with its first word capitalised
Capitalised(n) == [i \in 1..n |-> IF i = 1 THEN -i ELSE i]

\* a string with whitespace before and after it
Padded(s) == <<0>> \o s \o <<0>>

\* message.content of a translation completion, per provider
ProviderContents(kind) ==
    IF kind = "gpt4"
    THEN { NoContent, EmptyString, Phrase(10), Padded(Phrase(10)) }
    ELSE { NoContent, Phrase(7), Phrase(8), Phrase(9), Phrase(10), Phrase(11),
           Capitalised(10) }

\* message.content of a verification completion
ArbiterContents == {"A", "a", "B", " B ", "Both", "", "<null>"}

\* how an API call settles
Fulfilled(content) == [ok |-> TRUE, content |-> content]
Rejected == [ok |-> FALSE]

\* content?.trim().toUpperCase(), on the contents above
TrimUpper(content) ==
    CASE content \in {"A", "a"}  -> "A"
      [] content \in {"B", " B "} -> "B"
      [] content = "Both"         -> "BOTH"
      [] content = ""             -> ""
      [] OTHER                    -> "undefined"

\* the source text of the i-th segment of a transcript
SourceTexts ==
    << "Hello, citizens.", "We will invest fifty million dollars.",
       "Thank you.", "Stay safe." >>

Segment(i) ==
    [ id |-> i, text |-> SourceTexts[((i - 1) % Len(SourceTexts)) + 1],
      startTime |-> 2 * (i - 1), endTime |-> 2 * i ]

\* request bodies: transcripts of up to MaxSegs segments, ids rising or falling
SegmentLists ==
    UNION { { [i \in 1..n |-> Segment(i)], [i \in 1..n |-> Segment(n + 1 - i)] }
            : n \in 0..MaxSegs }

LanguageCodes == {"es", ""}

\* segment.text of a segment that carries no text (undefined)
NoText == "<undefined>"

\* requests the interface admits although they are malformed: a segment
\* without text, first or after a well-formed one, a segment that ends when
\* it starts, and a language code that languageMap does not list
MalformedBodies ==
    { [ targetLanguage |-> "es", isArray |-> TRUE,
        segments |-> << [Segment(1) EXCEPT !.text = NoText] >> ],
      [ targetLanguage |-> "es", isArray |-> TRUE,
        segments |-> << Segment(1), [Segment(2) EXCEPT !.text = NoText] >> ],
      [ targetLanguage |-> "es", isArray |-> TRUE,
        segments |-> << [Segment(1) EXCEPT !.endTime = @ - 2] >> ],
      [ targetLanguage |-> "xx", isArray |-> TRUE,
        segments |-> << Segment(1) >> ] }

(***************************************************************************)
(* Inputs of the synchronous functions when they are exercised on their    *)
(* own.                                                                    *)
(***************************************************************************)
\* w1, W1 (w1 with a capital letter) and w2
Words == {1, -1, 2}

\* strings of one to MaxLen words
WordStrings == UNION { [1..n -> Words] : n \in 1..MaxLen }

\* the empty string, a blank, short strings with repeated words and mixed
\* case, the same with whitespace around them, and the provider texts
Texts ==
    {EmptyString, <<0, 0>>}
        \cup WordStrings
        \cup {Padded(t) : t \in {w \in WordStrings : Len(w) = 1}}
        \cup {Phrase(7), Phrase(8), Phrase(9), Phrase(10), Phrase(11),
              Capitalised(10)}

\* confidences 0.00, 0.01 .. 1.00, in hundredths
Confidences == 0..100

\* no function is being exercised
NoInvocation == [fn |-> "none", args |-> << >>, returned |-> FALSE, value |-> << >>]

Invocation(fn, args) ==
    [fn |-> fn, args |-> args, returned |-> FALSE, value |-> << >>]

\* completions whose spoken duration is estimated, and the language codes
\* of the requests they answer: the ten of languageMap and one outside it
DurationContents == {NoContent, Phrase(1), Phrase(7), Padded(Phrase(10))}

DurationLanguageCodes ==
    {"es", "zh", "ru", "bn", "ht", "ko", "ar", "ur", "fr", "pl", "xx"}

\* the confidences that mergeTranslations assigns (0.95, 0.85, 0.75, 0.70)
MergeConfidences == {95, 85, 75, 70}

\* the confidences of the translations of a response, in order
ConfidenceLists == UNION { [1..n -> MergeConfidences] : n \in 0..MaxBatch }

\* what the three API calls made for one segment answer, when they are
\* made: agreement, an arbitrated choice of the second candidate, a
\* disagreement, and a first provider that fails
SegmentResponses == {"agree", "arbitrated", "disagree", "fails"}

SegmentResponse(kind) ==
    CASE kind = "agree" ->
           [ gpt4 |-> Fulfilled(Phrase(10)), turbo |-> Fulfilled(Capitalised(10)),
             arbiter |-> Rejected ]
      [] kind = "arbitrated" ->
           [ gpt4 |-> Fulfilled(Phrase(10)), turbo |-> Fulfilled(Phrase(8)),
             arbiter |-> Fulfilled("B") ]
      [] kind = "disagree" ->
           [ gpt4 |-> Fulfilled(Phrase(10)), turbo |-> Fulfilled(Phrase(7)),
             arbiter |-> Rejected ]
      [] OTHER ->
           [ gpt4 |-> Rejected, turbo |-> Fulfilled(Phrase(10)),
             arbiter |-> Rejected ]

\* batchTranslate just called: its loop variable i, its results array, and
\* the state of the promise it returned
BatchStarted == [i |-> 0, results |-> << >>, outcome |-> "pending"]

\* batchTranslate called with n segments
BatchInvocations(n) ==
    { [ fn |-> "batchTranslate",
        args |-> << [k \in 1..n |-> Segment(k)], responses, "es" >>,
        returned |-> FALSE,
        value |-> BatchStarted ]
      : responses \in [1..n -> SegmentResponses] }

Invocations ==
    {Invocation("calculateSimilarity", <<a, b>>) : a, b \in Texts}
        \cup {Invocation("qaStatus", <<c>>) : c \in Confidences}
        \cup {Invocation("overallConfidence", <<cs>>) : cs \in ConfidenceLists}
        \cup {Invocation("estimateDuration", <<content, code>>) :
                 content \in DurationContents, code \in DurationLanguageCodes}

(***************************************************************************)
(* TranslationService                                                      *)
(***************************************************************************)
languageMap ==
    [ es |-> "Spanish", zh |-> "Chinese (Mandarin)", ru |-> "Russian",
      bn |-> "Bengali", ht |-> "Haitian Creole", ko |-> "Korean",
      ar |-> "Arabic", ur |-> "Urdu", fr |-> "French", pl |-> "Polish" ]

\* this.languageMap[targetLanguageCode] || targetLanguageCode
LanguageName(code) ==
    IF code \in DOMAIN languageMap THEN languageMap[code] ELSE code

speechRates ==
    [ Spanish |-> 180, Chinese |-> 160, Russian |-> 184, Bengali |-> 170,
      Korean |-> 170, Arabic |-> 165, Urdu |-> 170, French |-> 195,
      Polish |-> 190 ] @@ ("Haitian Creole" :> 175)

DefaultSpeechRate == 175

\* (wordCount / wordsPerMinute) * 60 seconds, as a quotient
estimateDuration(text, language) ==
    LET wordsPerMinute ==
            IF language \in DOMAIN speechRates
            THEN speechRates[language] ELSE DefaultSpeechRate
    IN  Ratio(WordCount(text) * 60, wordsPerMinute)

Gpt4BaseConfidence == 90
Gpt4TurboBaseConfidence == 85

\* completion.choices[0].message.content?.trim() || ''
TranslatedText(content) ==
    IF content = NoContent THEN EmptyString ELSE Trim(content)

\* what translateWithGPT4 resolves to, given the completion's content
translateWithGPT4(content, language) ==
    LET translatedText == TranslatedText(content)
    IN  [ translatedText |-> translatedText,
          confidence |-> Gpt4BaseConfidence,
          model |-> "gpt-4",
          metadata |-> [ wordCount |-> WordCount(translatedText),
                         estimatedDuration |->
                             estimateDuration(translatedText, language) ] ]

\* what translateWithGPT4Turbo resolves to, given the completion's content
translateWithGPT4Turbo(content, language) ==
    LET translatedText == TranslatedText(content)
    IN  [ translatedText |-> translatedText,
          confidence |-> Gpt4TurboBaseConfidence,
          model |-> "gpt-4-turbo",
          metadata |-> [ wordCount |-> WordCount(translatedText),
                         estimatedDuration |->
                             estimateDuration(translatedText, language) ] ]

\* the share of the first text's tokens that the second text has too
calculateSimilarityContainment(text1, text2) ==
    LET set1 == WordSet(text1)
        set2 == WordSet(text2)
        intersection == {x \in set1 : x \in set2}
    IN  Ratio(Cardinality(intersection), Cardinality(set1))

\* the union taken as the array [...set1, ...set2], not as a Set of it
calculateSimilarityNoDedup(text1, text2) ==
    LET set1 == WordSet(text1)
        set2 == WordSet(text2)
        intersection == {x \in set1 : x \in set2}
    IN  Ratio(Cardinality(intersection), Cardinality(set1) + Cardinality(set2))

calculateSimilarity(text1, text2) ==
    LET set1 == WordSet(text1)
        set2 == WordSet(text2)
        intersection == {x \in set1 : x \in set2}
        union == set1 \cup set2
    IN  Ratio(Cardinality(intersection), Cardinality(union))

HighAgreementThreshold == 90
ModerateAgreementThreshold == 70
HighAgreementConfidence == 95
LowAgreementConfidence == 70
VerifiedConfidence == 85
VerificationErrorConfidence == 75

\* the verified confidence taken for the lower threshold
MergeStrategyShifted(similarity) ==
    IF GreaterThan(similarity, HighAgreementThreshold)
    THEN "high_agreement"
    ELSE IF GreaterThan(similarity, VerifiedConfidence)
         THEN "verified_selection"
         ELSE "low_agreement_flagged"

\* >= instead of > at the upper threshold
MergeStrategyInclusive(similarity) ==
    IF similarity[1] * 100 >= HighAgreementThreshold * similarity[2]
    THEN "high_agreement"
    ELSE IF GreaterThan(similarity, ModerateAgreementThreshold)
         THEN "verified_selection"
         ELSE "low_agreement_flagged"

\* the branch of mergeTranslations taken for a similarity
MergeStrategy(similarity) ==
    IF GreaterThan(similarity, HighAgreementThreshold)
    THEN "high_agreement"
    ELSE IF GreaterThan(similarity, ModerateAgreementThreshold)
         THEN "verified_selection"
         ELSE "low_agreement_flagged"

\* the B branch labelled with A's model
VerificationChoiceMislabelled(choice, gpt4Translation, gpt4TurboTranslation) ==
    IF choice = "A"
    THEN [ threw |-> FALSE,
           preferredTranslation |-> gpt4Translation,
           preferredModel |-> "gpt-4",
           confidence |-> VerifiedConfidence ]
    ELSE [ threw |-> FALSE,
           preferredTranslation |-> gpt4TurboTranslation,
           preferredModel |-> "gpt-4",
           confidence |-> VerifiedConfidence ]

\* each branch with the base confidence of the provider it prefers
VerificationChoiceByModel(choice, gpt4Translation, gpt4TurboTranslation) ==
    IF choice = "A"
    THEN [ threw |-> FALSE,
           preferredTranslation |-> gpt4Translation,
           preferredModel |-> "gpt-4",
           confidence |-> Gpt4BaseConfidence ]
    ELSE [ threw |-> FALSE,
           preferredTranslation |-> gpt4TurboTranslation,
           preferredModel |-> "gpt-4-turbo",
           confidence |-> Gpt4TurboBaseConfidence ]

\* verifyTranslation after its completion: the if on choice
VerificationChoice(choice, gpt4Translation, gpt4TurboTranslation) ==
    IF choice = "A"
    THEN [ threw |-> FALSE,
           preferredTranslation |-> gpt4Translation,
           preferredModel |-> "gpt-4",
           confidence |-> VerifiedConfidence ]
    ELSE [ threw |-> FALSE,
           preferredTranslation |-> gpt4TurboTranslation,
           preferredModel |-> "gpt-4-turbo",
           confidence |-> VerifiedConfidence ]

\* a catch that keeps the confidence of a successful verification
VerificationFallbackConfident(gpt4Translation) ==
    [ threw |-> FALSE,
      preferredTranslation |-> gpt4Translation,
      preferredModel |-> "gpt-4",
      confidence |-> VerifiedConfidence ]

\* a catch that rethrows, as the catch blocks of the provider functions do
VerificationFallbackRethrow(gpt4Translation) ==
    [ threw |-> TRUE,
      preferredTranslation |-> gpt4Translation,
      preferredModel |-> "gpt-4",
      confidence |-> VerificationErrorConfidence ]

\* verifyTranslation's catch
VerificationFallback(gpt4Translation) ==
    [ threw |-> FALSE,
      preferredTranslation |-> gpt4Translation,
      preferredModel |-> "gpt-4",
      confidence |-> VerificationErrorConfidence ]

\* what verifyTranslation resolves to, given how its completion settled;
\* threw: the promise is rejected instead
verifyTranslation(outcome, gpt4Translation, gpt4TurboTranslation) ==
    IF outcome.ok
    THEN VerificationChoice(TrimUpper(outcome.content),
                            gpt4Translation, gpt4TurboTranslation)
    ELSE VerificationFallback(gpt4Translation)

\* the verification argument of a merge that awaits none
NoVerification ==
    [ threw |-> FALSE, preferredTranslation |-> EmptyString,
      preferredModel |-> "", confidence |-> 0 ]

\* the provider's base confidence instead of the fixed one
HighAgreementBaseConfidence(gpt4Result) ==
    [ finalTranslation |-> gpt4Result.translatedText,
      primaryModel |-> "gpt-4",
      confidence |-> gpt4Result.confidence ]

\* the first branch of mergeTranslations
HighAgreementSelection(gpt4Result) ==
    [ finalTranslation |-> gpt4Result.translatedText,
      primaryModel |-> "gpt-4",
      confidence |-> HighAgreementConfidence ]

\* the confidence of the verification fallback in the last branch
LowAgreementAsFallback(gpt4Result) ==
    [ finalTranslation |-> gpt4Result.translatedText,
      primaryModel |-> "gpt-4",
      confidence |-> VerificationErrorConfidence ]

\* a last branch that returns no text, leaving the choice to the reviewer
LowAgreementSelectionBlank(gpt4Result) ==
    [ finalTranslation |-> EmptyString,
      primaryModel |-> "gpt-4",
      confidence |-> LowAgreementConfidence ]

\* the last branch of mergeTranslations
LowAgreementSelection(gpt4Result) ==
    [ finalTranslation |-> gpt4Result.translatedText,
      primaryModel |-> "gpt-4",
      confidence |-> LowAgreementConfidence ]

\* the middle branch of mergeTranslations, after its await
VerifiedSelection(verification) ==
    [ finalTranslation |-> verification.preferredTranslation,
      primaryModel |-> verification.preferredModel,
      confidence |-> verification.confidence ]

\* what mergeTranslations resolves to; verification is the value its
\* await of verifyTranslation produced (read in the middle branch only)
mergeTranslations(gpt4Result, gpt4TurboResult, verification) ==
    LET similarity == calculateSimilarity(gpt4Result.translatedText,
                                          gpt4TurboResult.translatedText)
        mergeStrategy == MergeStrategy(similarity)
        chosen ==
            CASE mergeStrategy = "high_agreement" ->
                   HighAgreementSelection(gpt4Result)
              [] mergeStrategy = "verified_selection" ->
                   VerifiedSelection(verification)
              [] OTHER ->
                   LowAgreementSelection(gpt4Result)
    IN  [ text |-> chosen.finalTranslation,
          confidence |-> chosen.confidence,
          primaryModel |-> chosen.primaryModel,
          comparisonScore |-> similarity,
          metadata |-> [ gpt4Result |-> gpt4Result,
                         geminiResult |-> gpt4TurboResult,
                         mergeStrategy |-> mergeStrategy ] ]

(***************************************************************************)
(* translateVideo (controller)                                             *)
(***************************************************************************)
ApprovedAbove == 90
NeedsReviewAbove == 80

\* the lower threshold of the merge taken for the lower threshold here
QaStatusLenient(confidence) ==
    IF confidence > ApprovedAbove THEN "approved"
    ELSE IF confidence > ModerateAgreementThreshold THEN "needs-review"
    ELSE "flagged"

QaStatus(confidence) ==
    IF confidence > ApprovedAbove THEN "approved"
    ELSE IF confidence > NeedsReviewAbove THEN "needs-review"
    ELSE "flagged"

\* formattedTranslations.reduce((acc, t) => acc + t.confidence, 0), in
\* doubles, from the left
RECURSIVE SumConfidence(_)
SumConfidence(ts) ==
    IF ts = << >> THEN DoubleOf(0)
    ELSE DoubleAdd(SumConfidence(SubSeq(ts, 1, Len(ts) - 1)),
                   DoubleOf(ts[Len(ts)].confidence))

\* the sum divided by the count
OverallConfidenceByCountPlusOne(ts) ==
    DoubleDivide(SumConfidence(ts), Len(ts) + 1)

\* sum / length, in doubles
OverallConfidence(ts) ==
    DoubleDivide(SumConfidence(ts), Len(ts))

\* res.json({success: true, data: ...}) of translateVideo
SuccessResponse(segs, translations) ==
    LET formattedTranslations ==
            [ index \in DOMAIN translations |->
                LET trans == translations[index]
                IN  [ id |-> segs[index].id,
                      originalText |-> segs[index].text,
                      translatedText |-> trans.text,
                      confidence |-> trans.confidence,
                      primaryModel |-> trans.primaryModel,
                      comparisonScore |-> trans.comparisonScore,
                      qaStatus |-> QaStatus(trans.confidence),
                      metadata |->
                        [ models |->
                            [ gpt4 |-> trans.metadata.gpt4Result.translatedText,
                              gemini |-> trans.metadata.geminiResult.translatedText ],
                          mergeStrategy |-> trans.metadata.mergeStrategy,
                          estimatedDuration |->
                            trans.metadata.gpt4Result.metadata.estimatedDuration ] ] ]
    IN  [ status |-> 200, success |-> TRUE,
          segmentCount |-> Len(formattedTranslations),
          translations |-> formattedTranslations,
          overallConfidence |-> OverallConfidence(formattedTranslations) ]

\* res.status(500).json(...) of translateVideo's catch
ErrorResponse ==
    [ status |-> 500, success |-> FALSE,
      error |-> "Failed to translate video segments" ]

\* res.status(400).json(...) of translateVideo
BadRequestResponse ==
    [ status |-> 400, success |-> FALSE,
      error |-> "Target language and segments are required" ]

(***************************************************************************)
(* translateWithContext: the loop over the segments                        *)
(***************************************************************************)
\* an API call that has just been issued; seg is the loop position of the
\* segment whose text and duration the request carries
Call(kind, i) ==
    [ kind |-> kind, seg |-> i, status |-> "inflight", value |-> NoValue,
      choice |-> "<none>" ]

\* the second provider function called only after the first has resolved
IssueProviderCallsOneByOne(i) == << Call("gpt4", i) >>

\* the provider functions of two segments called at once, as by a
\* Promise.all over the segments
IssueProviderCallsAhead(i) ==
    << Call("gpt4", i), Call("turbo", i), Call("gpt4", i + 1), Call("turbo", i + 1) >>

\* Promise.all([translateWithGPT4(...), translateWithGPT4Turbo(...)]): both
\* async functions run to their first await, so both requests are sent
IssueProviderCalls(i) == << Call("gpt4", i), Call("turbo", i) >>

CallIndex(cs, kind, i) ==
    CHOOSE c \in DOMAIN cs : cs[c].kind = kind /\ cs[c].seg = i

\* results.unshift(merged)
PushResultFront(res, merged) == <<merged>> \o res

\* results.push(merged)
PushResult(res, merged) == Append(res, merged)

\* the argument of the first logger.debug of the loop body reads
\* segment.text.substring: a TypeError when the segment has no text
SegmentLogThrows(segment) == segment.text = NoText

\* after a push: the next iteration of the loop, or the return of results
\* to translateVideo, which sends the response
NextSegment(cs, res) ==
    IF idx < Len(segments)
    THEN /\ idx' = idx + 1
         /\ results' = res
         /\ IF SegmentLogThrows(segments[idx + 1])
            THEN /\ calls' = cs
                 /\ pc' = "raised"
                 /\ response' = ErrorResponse
            ELSE /\ calls' = cs \o IssueProviderCalls(idx + 1)
                 /\ pc' = "awaitProviders"
                 /\ response' = response
    ELSE /\ idx' = idx
         /\ calls' = cs
         /\ pc' = "returned"
         /\ results' = res
         /\ response' = SuccessResponse(segments, res)

\* a catch that counts the error and goes on with the next segment
OnSegmentErrorContinue(cs) == NextSegment(cs, results)

\* a catch that calls the two provider functions again for the segment
OnSegmentErrorRetry(cs) ==
    /\ calls' = cs \o IssueProviderCalls(idx)
    /\ UNCHANGED <<pc, idx, results, response>>

\* the catch of the loop body rethrows; translateVideo's catch answers 500
OnSegmentError(cs) ==
    /\ calls' = cs
    /\ pc' = "raised"
    /\ response' = ErrorResponse
    /\ UNCHANGED <<idx, results>>

RequestBodies ==
    { [ targetLanguage |-> code, isArray |-> TRUE, segments |-> segs ]
        : code \in LanguageCodes, segs \in SegmentLists }
    \cup { [ targetLanguage |-> "es", isArray |-> FALSE, segments |-> << >> ] }
    \cup MalformedBodies

Init ==
    /\ pc = "idle"
    /\ segments = << >>
    /\ targetLanguage = ""
    /\ idx = 0
    /\ calls = << >>
    /\ results = << >>
    /\ response = NoResponse
    /\ unit = NoInvocation
    /\ review = NoReview
    /\ suspended = NoSuspended

\* POST /:videoId/translate up to the first await of translateWithContext
TranslateVideo(body) ==
    /\ pc = "idle"
    /\ IF body.targetLanguage = "" \/ ~body.isArray
       THEN /\ pc' = "rejected"
            /\ response' = BadRequestResponse
            /\ UNCHANGED <<segments, targetLanguage, idx, calls, results>>
       ELSE /\ segments' = body.segments
            /\ targetLanguage' = LanguageName(body.targetLanguage)
            /\ results' = << >>
            /\ IF Len(body.segments) = 0
               THEN /\ pc' = "returned"
                    /\ response' = SuccessResponse(body.segments, << >>)
                    /\ UNCHANGED <<idx, calls>>
               ELSE /\ idx' = 1
                    /\ IF SegmentLogThrows(body.segments[1])
                       THEN /\ pc' = "raised"
                            /\ response' = ErrorResponse
                            /\ calls' = calls
                       ELSE /\ pc' = "awaitProviders"
                            /\ response' = response
                            /\ calls' = IssueProviderCalls(1)
    /\ UNCHANGED <<unit, review, suspended>>

\* the merge of the current segment is complete: push it and go on
CompleteMerge(cs, gpt4Result, gpt4TurboResult, verification) ==
    \E merged \in {mergeTranslations(gpt4Result, gpt4TurboResult, verification)} :
        \E res \in {PushResult(results, merged)} :
            NextSegment(cs, res)

\* both provider functions have resolved: mergeTranslations up to its await
\* of verifyTranslation, or to its end when it awaits nothing
StartMerge(cs, gpt4Result, gpt4TurboResult) ==
    \E similarity \in {calculateSimilarity(gpt4Result.translatedText,
                                           gpt4TurboResult.translatedText)} :
        IF MergeStrategy(similarity) = "verified_selection"
        THEN /\ calls' = Append(cs, Call("verify", idx))
             /\ pc' = "awaitArbiter"
             /\ UNCHANGED <<idx, results, response>>
        ELSE CompleteMerge(cs, gpt4Result, gpt4TurboResult, NoVerification)

\* a translation completion arrives: the provider function resolves, and
\* when its sibling has resolved too the merge starts
ProviderFulfil(c, content) ==
    /\ c \in DOMAIN calls
    /\ calls[c].status = "inflight"
    /\ calls[c].kind \in {"gpt4", "turbo"}
    /\ \E value \in {IF calls[c].kind = "gpt4"
                      THEN translateWithGPT4(content, targetLanguage)
                      ELSE translateWithGPT4Turbo(content, targetLanguage)} :
       \E cs \in {[calls EXCEPT ![c].status = "fulfilled", ![c].value = value]} :
       \E a \in {CallIndex(cs, "gpt4", calls[c].seg)} :
       \E b \in {CallIndex(cs, "turbo", calls[c].seg)} :
           IF /\ pc = "awaitProviders"
              /\ cs[a].status = "fulfilled"
              /\ cs[b].status = "fulfilled"
           THEN \E gpt4Result \in {cs[a].value} :
                \E gpt4TurboResult \in {cs[b].value} :
                    StartMerge(cs, gpt4Result, gpt4TurboResult)
           ELSE /\ calls' = cs
                /\ UNCHANGED <<pc, idx, results, response>>
    /\ UNCHANGED <<segments, targetLanguage, unit, review, suspended>>

\* a translation request fails: the provider function rethrows, Promise.all
\* rejects at once, whatever its sibling does
ProviderReject(c) ==
    /\ c \in DOMAIN calls
    /\ calls[c].status = "inflight"
    /\ calls[c].kind \in {"gpt4", "turbo"}
    /\ \E cs \in {[calls EXCEPT ![c].status = "rejected"]} :
           IF pc = "awaitProviders"
           THEN OnSegmentError(cs)
           ELSE /\ calls' = cs
                /\ UNCHANGED <<pc, idx, results, response>>
    /\ UNCHANGED <<segments, targetLanguage, unit, review, suspended>>

\* the verification completion settles: verifyTranslation resolves, the
\* merge completes and its result is pushed
ArbiterSettle(outcome) ==
    /\ pc = "awaitArbiter"
    /\ \E c \in {CallIndex(calls, "verify", idx)} :
       \E gpt4Result \in {calls[CallIndex(calls, "gpt4", idx)].value} :
       \E gpt4TurboResult \in {calls[CallIndex(calls, "turbo", idx)].value} :
       \E verification \in
             {verifyTranslation(outcome, gpt4Result.translatedText,
                                gpt4TurboResult.translatedText)} :
       \E cs \in {[calls EXCEPT
                    ![c].status = IF outcome.ok THEN "fulfilled" ELSE "rejected",
                    ![c].value = verification,
                    ![c].choice = IF outcome.ok THEN TrimUpper(outcome.content)
                                  ELSE "<none>"]} :
           IF verification.threw
           THEN OnSegmentError(cs)
           ELSE CompleteMerge(cs, gpt4Result, gpt4TurboResult, verification)
    /\ UNCHANGED <<segments, targetLanguage, unit, review, suspended>>

Next ==
    \/ \E body \in RequestBodies : TranslateVideo(body)
    \/ \E c \in DOMAIN calls :
          \E content \in ProviderContents(calls[c].kind) :
              ProviderFulfil(c, content)
    \/ \E c \in DOMAIN calls : ProviderReject(c)
    \/ \E content \in ArbiterContents : ArbiterSettle(Fulfilled(content))
    \/ ArbiterSettle(Rejected)

Spec == Init /\ [][Next]_vars

(***************************************************************************)
(* The synchronous functions exercised on their own: one invocation, with  *)
(* any argument of the input sets.                                         *)
(***************************************************************************)
Return(value) ==
    /\ unit' = [unit EXCEPT !.returned = TRUE, !.value = value]
    /\ UNCHANGED <<pc, segments, targetLanguage, idx, calls, results, response,
                   review, suspended>>

CalculateSimilarity ==
    /\ unit.fn = "calculateSimilarity"
    /\ ~unit.returned
    /\ Return(calculateSimilarity(unit.args[1], unit.args[2]))

AssignQaStatus ==
    /\ unit.fn = "qaStatus"
    /\ ~unit.returned
    /\ Return(QaStatus(unit.args[1]))

ComputeOverallConfidence ==
    /\ unit.fn = "overallConfidence"
    /\ ~unit.returned
    /\ Return(OverallConfidence([i \in DOMAIN unit.args[1] |->
                                   [confidence |-> unit.args[1][i]]]))

\* the metadata of the result of a provider function called by
\* translateWithContext for a request with a language code
EstimateDuration ==
    /\ unit.fn = "estimateDuration"
    /\ ~unit.returned
    /\ Return(translateWithGPT4(unit.args[1], LanguageName(unit.args[2])).metadata)

\* one segment of translateWithContext's loop, given what its API calls
\* answer: the merged translation, or the error that the loop rethrows
TranslateSegment(segment, responses, language) ==
    IF SegmentLogThrows(segment) \/ ~responses.gpt4.ok \/ ~responses.turbo.ok
    THEN [raised |-> TRUE, merged |-> << >>]
    ELSE LET gpt4Result == translateWithGPT4(responses.gpt4.content, language)
             gpt4TurboResult ==
                 translateWithGPT4Turbo(responses.turbo.content, language)
             verification ==
                 verifyTranslation(responses.arbiter, gpt4Result.translatedText,
                                   gpt4TurboResult.translatedText)
         IN  [raised |-> FALSE,
              merged |-> mergeTranslations(gpt4Result, gpt4TurboResult,
                                           verification)]

\* the loop of translateWithContext from its first segment to its return
\* or to the first error
RECURSIVE TranslateSegments(_, _, _)
TranslateSegments(segs, responses, language) ==
    IF segs = << >> THEN [raised |-> FALSE, results |-> << >>]
    ELSE LET first == TranslateSegment(Head(segs),
                                       SegmentResponse(Head(responses)), language)
             rest == TranslateSegments(Tail(segs), Tail(responses), language)
         IN  IF first.raised \/ rest.raised
             THEN [raised |-> TRUE, results |-> << >>]
             ELSE [raised |-> FALSE, results |-> <<first.merged>> \o rest.results]

\* how a call of translateWithContext settles, given what the API calls
\* of each of its segments answer
translateWithContext(segs, responses, targetLanguageCode) ==
    TranslateSegments(segs, responses, LanguageName(targetLanguageCode))

batchSize == 5

\* segments.slice(i, i + batchSize)
Slice(seq, i) ==
    SubSeq(seq, i + 1, IF i + batchSize < Len(seq) THEN i + batchSize ELSE Len(seq))

\* results.push(...batchResults), then the loop test of batchTranslate
AfterChunk(progress, batchResults, n) ==
    [ i |-> progress.i + batchSize,
      results |-> progress.results \o batchResults,
      outcome |-> IF progress.i + batchSize < n THEN "pending" ELSE "fulfilled" ]

\* a loop body that catches the error of a chunk and goes on without it
OnChunkErrorSkip(progress, n) == AfterChunk(progress, << >>, n)

\* the await of translateWithContext throws: batchTranslate has no catch
OnChunkError(progress, n) == [progress EXCEPT !.outcome = "rejected"]

\* batchTranslate from its call, or from the settling of its await of
\* translateWithContext, to its next await or to its end
BatchTranslate ==
    /\ unit.fn = "batchTranslate"
    /\ ~unit.returned
    /\ LET segs == unit.args[1]
           responses == unit.args[2]
           progress == unit.value
           batchResults ==
               translateWithContext(Slice(segs, progress.i),
                                    Slice(responses, progress.i), unit.args[3])
           next == IF progress.i >= Len(segs)
                   THEN [progress EXCEPT !.outcome = "fulfilled"]
                   ELSE IF batchResults.raised
                        THEN OnChunkError(progress, Len(segs))
                        ELSE AfterChunk(progress, batchResults.results, Len(segs))
       IN  unit' = [unit EXCEPT !.value = next,
                                !.returned = (next.outcome # "pending")]
    /\ UNCHANGED <<pc, segments, targetLanguage, idx, calls, results, response,
                   review, suspended>>

FunctionInit ==
    /\ pc = "idle"
    /\ segments = << >>
    /\ targetLanguage = ""
    /\ idx = 0
    /\ calls = << >>
    /\ results = << >>
    /\ response = NoResponse
    /\ \/ unit \in Invocations
       \/ \E n \in 0..MaxBatchSegs : unit \in BatchInvocations(n)
    /\ review = NoReview
    /\ suspended = NoSuspended

FunctionNext ==
    \/ CalculateSimilarity
    \/ AssignQaStatus
    \/ ComputeOverallConfidence
    \/ EstimateDuration
    \/ BatchTranslate

FunctionSpec == FunctionInit /\ [][FunctionNext]_vars

(***************************************************************************)
(* The QA review step of the frontend (App.tsx, step 3), from the arrival  *)
(* of the translations to the audio request, and generateAudio of the      *)
(* pipeline script, which posts to the same audio endpoint.  A translated  *)
(* text is a number: 0 is the text the server returned, the others are     *)
(* texts typed by the reviewer.                                            *)
(***************************************************************************)
\* most translations under review
MaxReviewSegs == 2

\* most approve requests in flight at once
MaxApproving == 2

\* most audio requests sent by one client
MaxAudio == 2

\* what the reviewer types into the textarea of a segment
EditTexts == {1}

\* the confidences of the translations of a response, in order
ReviewConfidenceLists ==
    UNION { [1..n -> MergeConfidences] : n \in 0..MaxReviewSegs }

\* mappedTranslations of handleProceedToTranslation, for a response whose
\* translations have the confidences cs: the status is the server's
MappedTranslations(cs) ==
    [ i \in DOMAIN cs |->
        [ id |-> i, translation |-> 0, confidence |-> cs[i],
          qaStatus |-> QaStatus(cs[i]) ] ]

\* setTranslations(mappedTranslations); setCurrentStep(3), and for the
\* script the return of its translateVideo
ReviewStarted(client, cs) ==
    [ client |-> client, currentStep |-> 3,
      translations |-> MappedTranslations(cs),
      approving |-> << >>, generating |-> 0, audio |-> << >> ]

\* prev.map(seg => seg.id === segmentId
\*     ? {...seg, translation: newTranslation, qaStatus: 'edited'} : seg)
handleTranslationEdit(translations, segmentId, newTranslation) ==
    [ i \in DOMAIN translations |->
        IF translations[i].id = segmentId
        THEN [translations[i] EXCEPT !.translation = newTranslation,
                                     !.qaStatus = "edited"]
        ELSE translations[i] ]

\* prev.map(seg => seg.id === segmentId ? {...seg, qaStatus: 'approved'} : seg)
ApproveInState(translations, segmentId) ==
    [ i \in DOMAIN translations |->
        IF translations[i].id = segmentId
        THEN [translations[i] EXCEPT !.qaStatus = "approved"]
        ELSE translations[i] ]

\* disabled={translations.some(s => s.qaStatus !== 'approved')}
GenerateAudioDisabled(translations) ==
    \E i \in DOMAIN translations : translations[i].qaStatus # "approved"

\* the segments of the body of handleGenerateAudio's request
AudioSegments(translations) ==
    [ i \in DOMAIN translations |->
        [ id |-> translations[i].id, text |-> translations[i].translation ] ]

\* t.qaStatus === 'approved' || t.confidence > 0.8
ScriptAudioFilter(t) == t.qaStatus = "approved" \/ t.confidence > 80

\* audioSegments of the script's generateAudio
ScriptAudioSegments(translations) ==
    AudioSegments(SelectSeq(translations, ScriptAudioFilter))

\* a sequence without its k-th element
Without(seq, k) == SubSeq(seq, 1, k - 1) \o SubSeq(seq, k + 1, Len(seq))

ReviewUnchanged ==
    UNCHANGED <<pc, segments, targetLanguage, idx, calls, results, response,
                unit, suspended>>

\* the textarea of a segment loses focus: handleTranslationEdit
EditTranslation(segmentId, newTranslation) ==
    /\ review.client = "app"
    /\ review.currentStep = 3
    /\ review' = [review EXCEPT !.translations =
                     handleTranslationEdit(@, segmentId, newTranslation)]
    /\ ReviewUnchanged

\* a click on Approve Translation: handleApproveSegment up to its await;
\* the invocation that waits was created by the render that showed the
\* translation it keeps
ApproveClick(i) ==
    /\ review.client = "app"
    /\ review.currentStep = 3
    /\ Len(review.approving) < MaxApproving
    /\ review' = [review EXCEPT !.approving =
                     Append(@, [ segmentId |-> review.translations[i].id,
                                 shown |-> review.translations[i].translation ])]
    /\ ReviewUnchanged

\* qaAPI.approveSegment resolves: the rest of the try block
ApproveFulfil(k) ==
    /\ k \in DOMAIN review.approving
    /\ review' = [review EXCEPT
                     !.translations =
                         ApproveInState(@, review.approving[k].segmentId),
                     !.approving = Without(@, k)]
    /\ ReviewUnchanged

\* qaAPI.approveSegment rejects: the catch shows a toast
ApproveReject(k) ==
    /\ k \in DOMAIN review.approving
    /\ review' = [review EXCEPT !.approving = Without(@, k)]
    /\ ReviewUnchanged

\* a click on Generate Audio, which a disabled button does not deliver:
\* handleGenerateAudio up to its await
GenerateAudioClick ==
    /\ review.client = "app"
    /\ review.currentStep = 3
    /\ ~GenerateAudioDisabled(review.translations)
    /\ Len(review.audio) < MaxAudio
    /\ review' = [review EXCEPT
                     !.audio = Append(@, AudioSegments(review.translations)),
                     !.generating = @ + 1]
    /\ ReviewUnchanged

\* audioAPI.generateAudio resolves: setCurrentStep(4)
AudioFulfil ==
    /\ review.generating > 0
    /\ review' = [review EXCEPT !.generating = @ - 1, !.currentStep = 4]
    /\ ReviewUnchanged

\* audioAPI.generateAudio rejects: the catch shows a toast
AudioReject ==
    /\ review.generating > 0
    /\ review' = [review EXCEPT !.generating = @ - 1]
    /\ ReviewUnchanged

\* generateAudio of the pipeline script, called with what its
\* translateVideo returned: it returns early without segments to send
ScriptGenerateAudio ==
    /\ review.client = "script"
    /\ review.currentStep = 3
    /\ \E audioSegments \in {ScriptAudioSegments(review.translations)} :
          review' = [review EXCEPT
                        !.audio = IF audioSegments = << >> THEN @
                                  ELSE Append(@, audioSegments),
                        !.currentStep = 4]
    /\ ReviewUnchanged

ReviewInit ==
    /\ pc = "idle"
    /\ segments = << >>
    /\ targetLanguage = ""
    /\ idx = 0
    /\ calls = << >>
    /\ results = << >>
    /\ response = NoResponse
    /\ unit = NoInvocation
    /\ suspended = NoSuspended
    /\ \E client \in {"app", "script"} : \E cs \in ReviewConfidenceLists :
          review = ReviewStarted(client, cs)

ReviewNext ==
    \/ \E i \in DOMAIN review.translations : \E newTranslation \in EditTexts :
          EditTranslation(review.translations[i].id, newTranslation)
    \/ \E i \in DOMAIN review.translations : ApproveClick(i)
    \/ \E k \in DOMAIN review.approving : ApproveFulfil(k)
    \/ \E k \in DOMAIN review.approving : ApproveReject(k)
    \/ GenerateAudioClick
    \/ AudioFulfil
    \/ AudioReject
    \/ ScriptGenerateAudio

ReviewSpec == ReviewInit /\ [][ReviewNext]_vars

(***************************************************************************)
(* Two translateVideo requests served at once by the one TranslationService *)
(* instance.  The request whose continuation runs is kept in the variables *)
(* of the loop; the other one is suspended at its await.  Every turn of    *)
(* the event loop belongs to one of the two, in any order.                 *)
(***************************************************************************)
\* what a request's handler and its translateWithContext call hold in
\* their local variables and in the promises they wait for
Locals ==
    [ pc |-> pc, segments |-> segments, targetLanguage |-> targetLanguage,
      idx |-> idx, calls |-> calls, results |-> results, response |-> response ]

\* the request that is running
RunningId == 3 - suspended.id

\* a language name kept in a field of the service, which the requests share
ResumedSharingLanguage(saved) == [saved EXCEPT !.targetLanguage = targetLanguage]

\* what a continuation finds when it runs again: the variables of its own
\* call, declared with const inside translateWithContext
Resumed(saved) == saved

\* the bodies of the two requests: different languages, different segments
ConcurrentCode(id) == IF id = 1 THEN "es" ELSE "zh"

ConcurrentSegmentLists(id) ==
    { [i \in 1..n |-> Segment(IF id = 1 THEN i ELSE n + 2 - i)] : n \in 1..MaxSegs }

ConcurrentBodies(id) ==
    { [ targetLanguage |-> ConcurrentCode(id), isArray |-> TRUE, segments |-> segs ]
        : segs \in ConcurrentSegmentLists(id) }

\* what the providers answer here: agreement, a score of 0.8 and a
\* disagreement
ConcurrentContents(kind) ==
    IF kind = "gpt4" THEN { Phrase(10) }
    ELSE { Capitalised(10), Phrase(8), Phrase(7) }

ConcurrentArbiterContents == {"A", "B"}

\* the event loop turns to the other request
Switch ==
    /\ suspended.id \in {1, 2}
    /\ suspended' = [id |-> RunningId] @@ Locals
    /\ \E r \in {Resumed(suspended)} :
          /\ pc' = r.pc
          /\ segments' = r.segments
          /\ targetLanguage' = r.targetLanguage
          /\ idx' = r.idx
          /\ calls' = r.calls
          /\ results' = r.results
          /\ response' = r.response
    /\ UNCHANGED <<unit, review>>

ConcurrentInit ==
    /\ pc = "idle"
    /\ segments = << >>
    /\ targetLanguage = ""
    /\ idx = 0
    /\ calls = << >>
    /\ results = << >>
    /\ response = NoResponse
    /\ unit = NoInvocation
    /\ review = NoReview
    /\ suspended = [ id |-> 2, pc |-> "idle", segments |-> << >>,
                     targetLanguage |-> "", idx |-> 0, calls |-> << >>,
                     results |-> << >>, response |-> NoResponse ]

ConcurrentNext ==
    \/ \E body \in ConcurrentBodies(RunningId) : TranslateVideo(body)
    \/ \E c \in DOMAIN calls :
          \E content \in ConcurrentContents(calls[c].kind) :
              ProviderFulfil(c, content)
    \/ \E c \in DOMAIN calls : ProviderReject(c)
    \/ \E content \in ConcurrentArbiterContents : ArbiterSettle(Fulfilled(content))
    \/ ArbiterSettle(Rejected)
    \/ Switch

ConcurrentSpec == ConcurrentInit /\ [][ConcurrentNext]_vars

\* the settlement of an outstanding API call
Settles ==
    \/ \E c \in DOMAIN calls :
          \E content \in ProviderContents(calls[c].kind) :
              ProviderFulfil(c, content)
    \/ \E c \in DOMAIN calls : ProviderReject(c)
    \/ \E content \in ArbiterContents : ArbiterSettle(Fulfilled(content))
    \/ ArbiterSettle(Rejected)

\* every outstanding API call settles in the end; the continuations that a
\* settlement makes runnable are part of its step
FairSpec == Spec /\ WF_vars(Settles)

(***************************************************************************)
(* Properties                                                              *)
(***************************************************************************)
Strategies == {"high_agreement", "verified_selection", "low_agreement_flagged"}

\* s > 0.90 and s > 0.70 for a similarity kept as a quotient
Above90(s) == 10 * s[1] > 9 * s[2]
Above70(s) == 10 * s[1] > 7 * s[2]

ProviderKinds == {"gpt4", "turbo"}

\* the verification calls issued for the segment at loop position i
ArbiterCalls(i) ==
    {c \in DOMAIN calls : calls[c].kind = "verify" /\ calls[c].seg = i}

\* the merged translation at position i carries provider A's text and label
CarriesA(i) ==
    /\ results[i].text = results[i].metadata.gpt4Result.translatedText
    /\ results[i].primaryModel = results[i].metadata.gpt4Result.model

\* the merged translation at position i carries provider B's text and label
CarriesB(i) ==
    /\ results[i].text = results[i].metadata.geminiResult.translatedText
    /\ results[i].primaryModel = results[i].metadata.geminiResult.model

ProviderFailed ==
    \E c \in DOMAIN calls :
        calls[c].kind \in ProviderKinds /\ calls[c].status = "rejected"

\* every segment of the request being served carries a text
AllSegmentsHaveText == \A i \in DOMAIN segments : segments[i].text # NoText

\* C1: every merged translation carries exactly one of the three merge
\* strategies, and which one is decided by its similarity score alone:
\* high_agreement exactly above 0.90, low_agreement_flagged exactly at or
\* below 0.70, verified_selection exactly in between; the score is the
\* similarity of the two provider texts and lies in [0,1].
C1_OneRegimePerScore ==
    \A i \in DOMAIN results :
        LET s == results[i].comparisonScore
            m == results[i].metadata.mergeStrategy
        IN  /\ m \in Strategies
            /\ s[2] > 0 /\ 0 <= s[1] /\ s[1] <= s[2]
            /\ (m = "high_agreement") <=> Above90(s)
            /\ (m = "verified_selection") <=> (Above70(s) /\ ~Above90(s))
            /\ (m = "low_agreement_flagged") <=> ~Above70(s)

\* two segments merged under different regimes, one of them verified
C1_Witness ==
    \E i, j \in DOMAIN results :
        /\ results[i].metadata.mergeStrategy = "verified_selection"
        /\ results[j].metadata.mergeStrategy = "low_agreement_flagged"

\* C2 as claimed: a similarity of exactly 0.90 is merged as high_agreement,
\* with provider A's text, confidence 0.95 and no arbiter call.
C2_NineTenthsIsHighAgreement ==
    \A i \in DOMAIN results :
        SameRatio(results[i].comparisonScore, <<9, 10>>) =>
            /\ results[i].metadata.mergeStrategy = "high_agreement"
            /\ CarriesA(i)
            /\ results[i].confidence = 95
            /\ ArbiterCalls(i) = {}

\* C2 amended: a similarity of exactly 0.90 is merged as verified_selection:
\* one arbiter call is issued for the segment, and the result is candidate A
\* or candidate B with confidence 0.85, or candidate A with 0.75 when the
\* arbiter call failed; never 0.95.
C2_NineTenthsIsVerified ==
    \A i \in DOMAIN results :
        SameRatio(results[i].comparisonScore, <<9, 10>>) =>
            /\ results[i].metadata.mergeStrategy = "verified_selection"
            /\ Cardinality(ArbiterCalls(i)) = 1
            /\ \A c \in ArbiterCalls(i) :
                  IF calls[c].status = "rejected"
                  THEN CarriesA(i) /\ results[i].confidence = 75
                  ELSE /\ calls[c].status = "fulfilled"
                       /\ CarriesA(i) \/ CarriesB(i)
                       /\ results[i].confidence = 85

\* a segment whose provider texts share 9 tokens of a 10-token union
C2_Witness ==
    \E i \in DOMAIN results :
        /\ SameRatio(results[i].comparisonScore, <<9, 10>>)
        /\ Cardinality(WordSet(results[i].metadata.gpt4Result.translatedText)
                  \cup WordSet(results[i].metadata.geminiResult.translatedText)) = 10

\* C3: above 0.90 the merge returns provider A's text and label,
\* high_agreement and confidence 0.95 whatever the score, with no arbiter
\* call.
C3_HighAgreement ==
    \A i \in DOMAIN results :
        Above90(results[i].comparisonScore) =>
            /\ CarriesA(i)
            /\ results[i].metadata.mergeStrategy = "high_agreement"
            /\ results[i].confidence = 95
            /\ ArbiterCalls(i) = {}

\* two high-agreement merges with different scores, one of them of two
\* provider texts that differ
C3_Witness ==
    \E i, j \in DOMAIN results :
        /\ Above90(results[i].comparisonScore)
        /\ Above90(results[j].comparisonScore)
        /\ ~SameRatio(results[i].comparisonScore, results[j].comparisonScore)
        /\ SameRatio(results[j].comparisonScore, <<1, 1>>)
        /\ results[j].metadata.gpt4Result.translatedText
             # results[j].metadata.geminiResult.translatedText

\* C4: for 0.70 < s <= 0.90 the merge issued the arbiter call, is tagged
\* verified_selection, and when the arbiter answered "A" ("B") it carries
\* candidate A's (B's) text, that provider's label and confidence 0.85.
C4_VerifiedSelection ==
    \A i \in DOMAIN results :
        LET s == results[i].comparisonScore
        IN  (Above70(s) /\ ~Above90(s)) =>
            /\ results[i].metadata.mergeStrategy = "verified_selection"
            /\ Cardinality(ArbiterCalls(i)) = 1
            /\ \A c \in ArbiterCalls(i) :
                  /\ calls[c].status # "inflight"
                  /\ (calls[c].status = "fulfilled" /\ calls[c].choice = "A")
                        => (CarriesA(i) /\ results[i].confidence = 85)
                  /\ (calls[c].status = "fulfilled" /\ calls[c].choice = "B")
                        => (CarriesB(i) /\ results[i].confidence = 85)

\* the arbiter answered "A" for one segment and "B" for another
C4_Witness ==
    \E i, j \in DOMAIN results :
        /\ \E c \in ArbiterCalls(i) : calls[c].choice = "A"
        /\ \E c \in ArbiterCalls(j) : calls[c].choice = "B"
        /\ results[j].text # results[j].metadata.gpt4Result.translatedText

\* C5: at or below 0.70 the merge returns provider A's text and label with
\* confidence 0.70, tagged low_agreement_flagged, with no arbiter call.
C5_LowAgreement ==
    \A i \in DOMAIN results :
        ~Above70(results[i].comparisonScore) =>
            /\ CarriesA(i)
            /\ results[i].metadata.mergeStrategy = "low_agreement_flagged"
            /\ results[i].confidence = 70
            /\ ArbiterCalls(i) = {}

\* a merge at exactly 0.70 and one below it
C5_Witness ==
    \E i, j \in DOMAIN results :
        /\ SameRatio(results[i].comparisonScore, <<7, 10>>)
        /\ SameRatio(results[j].comparisonScore, <<0, 1>>)

\* C6: when the arbiter call of a segment failed, the merge did not raise:
\* its result is in the results, with candidate A's text and label and
\* confidence 0.75 (a batch of segments that all carry a text raises only
\* after a provider failure).
C6_ArbiterFailureFallsBack ==
    \A c \in DOMAIN calls :
        (calls[c].kind = "verify" /\ calls[c].status = "rejected") =>
            /\ (pc = "raised" /\ AllSegmentsHaveText) => ProviderFailed
            /\ calls[c].seg \in DOMAIN results
            /\ CarriesA(calls[c].seg)
            /\ results[calls[c].seg].confidence = 75

\* an arbiter call failed for a segment whose candidates differ
C6_Witness ==
    \E c \in DOMAIN calls :
        /\ calls[c].kind = "verify" /\ calls[c].status = "rejected"
        /\ calls[c].seg \in DOMAIN results
        /\ results[calls[c].seg].metadata.gpt4Result.translatedText
             # results[calls[c].seg].metadata.geminiResult.translatedText

\* C7 as claimed: when the arbiter call completes with an answer other than
\* "A" or "B", the merge returns candidate A's text and label with
\* confidence 0.75, never candidate B's text.
C7_UnparseableAnswerFallsBackToA ==
    \A c \in DOMAIN calls :
        ( /\ calls[c].kind = "verify"
          /\ calls[c].status = "fulfilled"
          /\ calls[c].choice \notin {"A", "B"} ) =>
            /\ calls[c].seg \in DOMAIN results
            /\ CarriesA(calls[c].seg)
            /\ results[calls[c].seg].confidence = 75
            /\ results[calls[c].seg].text
                 # results[calls[c].seg].metadata.geminiResult.translatedText

\* C8: a returned batch holds one merged translation per input segment, the
\* i-th built from the two provider results of the i-th segment, and the
\* response lists them under the ids of the input segments in input order.
C8_OrderPreserved ==
    pc = "returned" =>
        /\ Len(results) = Len(segments)
        /\ response.status = 200
        /\ Len(response.translations) = Len(segments)
        /\ \A i \in DOMAIN segments :
              /\ \A k \in ProviderKinds :
                    Cardinality({c \in DOMAIN calls :
                        calls[c].kind = k /\ calls[c].seg = i}) = 1
              /\ results[i].metadata.gpt4Result
                   = calls[CallIndex(calls, "gpt4", i)].value
              /\ results[i].metadata.geminiResult
                   = calls[CallIndex(calls, "turbo", i)].value
              /\ response.translations[i].id = segments[i].id
              /\ response.translations[i].originalText = segments[i].text
              /\ response.translations[i].translatedText = results[i].text
              /\ response.translations[i].metadata.models.gpt4
                   = calls[CallIndex(calls, "gpt4", i)].value.translatedText
              /\ response.translations[i].metadata.models.gemini
                   = calls[CallIndex(calls, "turbo", i)].value.translatedText

\* a returned batch of two segments, ids falling, merged differently, the
\* second one after an arbiter call
C8_Witness ==
    /\ pc = "returned"
    /\ Len(segments) = MaxSegs
    /\ segments[1].id > segments[2].id
    /\ results[1] # results[2]
    /\ results[1].metadata.gpt4Result # results[2].metadata.gpt4Result
    /\ ArbiterCalls(2) # {}

\* C9: once a provider call of the batch has failed, translateWithContext
\* has raised: the caller got the error response, which carries no merged
\* translation, and no translation was recorded for the failed segment.
C9_ProviderFailureAbortsBatch ==
    ProviderFailed =>
        /\ pc = "raised"
        /\ response.status = 500
        /\ DOMAIN response = {"status", "success", "error"}
        /\ ~response.success
        /\ Len(results) = idx - 1

\* the batch raised on its last segment, after merging the ones before it
C9_Witness ==
    /\ pc = "raised"
    /\ ProviderFailed
    /\ idx = MaxSegs
    /\ Len(results) = MaxSegs - 1
    /\ response.status = 500

\* C10: a batch that has started, of segments that all carry a text, ends by
\* returning one merged translation per input segment, unless a provider
\* call fails; whatever the arbiter calls do, the batch does not raise.
C10_ArbiterNeverFailsBatch ==
    (pc \in {"awaitProviders", "awaitArbiter"} /\ AllSegmentsHaveText)
        ~> ( \/ ProviderFailed
             \/ /\ pc = "returned"
                /\ Len(results) = Len(segments)
                /\ response.status = 200 )

\* a returned batch in which one arbiter call failed and another answered
\* neither "A" nor "B"
C10_Witness ==
    /\ pc = "returned"
    /\ ~ProviderFailed
    /\ \E c \in DOMAIN calls :
          calls[c].kind = "verify" /\ calls[c].status = "rejected"
    /\ \E c \in DOMAIN calls :
          /\ calls[c].kind = "verify" /\ calls[c].status = "fulfilled"
          /\ calls[c].choice \notin {"A", "B"}

\* the provider calls that completed with an empty translation
EmptyCompletions ==
    {c \in DOMAIN calls :
        /\ calls[c].kind \in ProviderKinds
        /\ calls[c].status = "fulfilled"
        /\ calls[c].value.translatedText = EmptyString}

\* C11 as claimed: a provider call that completes with an empty translation
\* is a failure: its segment is not merged and the batch raises, so no
\* merged translation is built from an empty provider text and none has an
\* empty text.
C11_EmptyTranslationIsFailure ==
    /\ EmptyCompletions # {} => pc = "raised"
    /\ \A c \in EmptyCompletions : calls[c].seg \notin DOMAIN results
    /\ \A i \in DOMAIN results : results[i].text # EmptyString

\* the request being served is malformed: a segment without text or with
\* an end not after its start, or a language outside languageMap
InvalidRequest ==
    /\ pc # "idle"
    /\ \/ \E i \in DOMAIN segments :
             \/ segments[i].text = NoText
             \/ segments[i].endTime <= segments[i].startTime
       \/ /\ pc # "rejected"
          /\ \A code \in DOMAIN languageMap : languageMap[code] # targetLanguage

\* C12 as claimed: a request with a segment without text, a segment whose
\* endTime is not greater than its startTime, or a language code outside
\* the table is rejected before any provider call is issued.
C12_InvalidInputIssuesNoCall ==
    InvalidRequest => (calls = << >> /\ pc \in {"rejected", "raised"})

\* the calls of one kind issued for the segment at loop position i
CallsOf(kind, i) ==
    {c \in DOMAIN calls : calls[c].kind = kind /\ calls[c].seg = i}

\* the merge of the segment at loop position i has started
MergeStarted(i) == ArbiterCalls(i) # {} \/ i \in DOMAIN results

\* C13: the two provider calls of a segment are issued together, before
\* either is awaited: at no time has one been issued (let alone settled)
\* without the other; and the merge of a segment (its arbiter call, its
\* result) exists only when both provider calls have been fulfilled.
C13_FanOutThenJoin ==
    \A i \in 1..(MaxSegs + 1) :
        /\ (CallsOf("gpt4", i) # {}) <=> (CallsOf("turbo", i) # {})
        /\ (pc \in {"awaitProviders", "awaitArbiter"} /\ i = idx) =>
              (CallsOf("gpt4", i) # {} /\ CallsOf("turbo", i) # {})
        /\ MergeStarted(i) =>
              \A k \in ProviderKinds :
                  /\ CallsOf(k, i) # {}
                  /\ \A c \in CallsOf(k, i) : calls[c].status = "fulfilled"

\* the second provider has answered while the first is still in flight, and
\* the merge of the segment has not started
C13_Witness ==
    /\ pc = "awaitProviders"
    /\ \E c \in CallsOf("turbo", idx) : calls[c].status = "fulfilled"
    /\ \E c \in CallsOf("gpt4", idx) : calls[c].status = "inflight"
    /\ ~MergeStarted(idx)

\* C14: segments are processed one after another: when a provider call of
\* the segment at position j exists, the merges of all segments before it
\* are in the results, and every call of those segments, arbiter calls
\* included, was issued earlier and has settled.
C14_SegmentsSequential ==
    \A c \in DOMAIN calls :
        calls[c].kind \in ProviderKinds =>
            /\ Len(results) >= calls[c].seg - 1
            /\ \A d \in DOMAIN calls :
                  calls[d].seg < calls[c].seg =>
                      (d < c /\ calls[d].status # "inflight")

\* the provider calls of the second segment are out, after a first segment
\* whose merge took an arbiter call
C14_Witness ==
    /\ pc = "awaitProviders"
    /\ idx = 2
    /\ ArbiterCalls(1) # {}
    /\ \A c \in CallsOf("gpt4", 2) \cup CallsOf("turbo", 2) :
          calls[c].status = "inflight"
    /\ CallsOf("gpt4", 2) # {}

\* C15: each provider is called at most once per segment, also after a
\* failure; the arbiter is called at most once per segment and only when
\* the similarity of the two provider texts is above 0.70 and at most 0.90;
\* a returned batch of N segments has issued exactly 2N provider calls.
C15_CallCounts ==
    /\ \A i \in 1..(MaxSegs + 1) :
          /\ \A k \in ProviderKinds : Cardinality(CallsOf(k, i)) <= 1
          /\ Cardinality(ArbiterCalls(i)) <= 1
          /\ ArbiterCalls(i) # {} =>
                \E a \in CallsOf("gpt4", i) : \E b \in CallsOf("turbo", i) :
                    /\ calls[a].status = "fulfilled"
                    /\ calls[b].status = "fulfilled"
                    /\ LET s == calculateSimilarity(calls[a].value.translatedText,
                                                    calls[b].value.translatedText)
                       IN  Above70(s) /\ ~Above90(s)
    /\ pc = "returned" =>
          Cardinality({c \in DOMAIN calls : calls[c].kind \in ProviderKinds})
              = 2 * Len(segments)

\* a returned batch of MaxSegs segments, one of them merged after an arbiter
\* call and another without one
C15_Witness ==
    /\ pc = "returned"
    /\ Len(segments) = MaxSegs
    /\ \E i, j \in DOMAIN segments : ArbiterCalls(i) # {} /\ ArbiterCalls(j) = {}

\* the arbiter call of the merge at position i failed
ArbiterFailed(i) == \E c \in ArbiterCalls(i) : calls[c].status = "rejected"

\* C16 as claimed: any two merges with the same agreement score have the
\* same mergeStrategy and the same confidence, whatever else happened
\* during the merge.
C16_ScoreDeterminesConfidence ==
    \A i, j \in DOMAIN results :
        SameRatio(results[i].comparisonScore, results[j].comparisonScore) =>
            /\ results[i].metadata.mergeStrategy = results[j].metadata.mergeStrategy
            /\ results[i].confidence = results[j].confidence

\* C16 amended: any two merges with the same agreement score have the same
\* mergeStrategy, and the same confidence when the arbiter call failed in
\* both or in neither; the confidence is 0.95 above 0.90, 0.70 at or below
\* 0.70, and in between 0.75 when the arbiter call failed and 0.85
\* otherwise.
C16_ScoreAndArbiterDetermineConfidence ==
    \A i, j \in DOMAIN results :
        SameRatio(results[i].comparisonScore, results[j].comparisonScore) =>
            /\ results[i].metadata.mergeStrategy = results[j].metadata.mergeStrategy
            /\ (ArbiterFailed(i) <=> ArbiterFailed(j)) =>
                  results[i].confidence = results[j].confidence
            /\ results[i].confidence =
                  IF Above90(results[i].comparisonScore) THEN 95
                  ELSE IF ~Above70(results[i].comparisonScore) THEN 70
                  ELSE IF ArbiterFailed(i) THEN 75 ELSE 85

\* two merges with the same score in the band, arbitrated differently: "A"
\* for one and "B" for the other
C16_Witness ==
    \E i, j \in DOMAIN results :
        /\ SameRatio(results[i].comparisonScore, results[j].comparisonScore)
        /\ \E c \in ArbiterCalls(i) : calls[c].choice = "A"
        /\ \E c \in ArbiterCalls(j) : calls[c].choice = "B"
        /\ results[i].text # results[j].text

\* a single invocation of calculateSimilarity has returned
SimilarityReturned == unit.fn = "calculateSimilarity" /\ unit.returned

\* the pieces that splitting a text on whitespace yields, in lower case, as
\* a set; the piece 0 is the empty string, which an empty text and a text
\* with whitespace at either end yield
Pieces(text) ==
    {IF text[i] < 0 THEN 0 - text[i] ELSE text[i] : i \in DOMAIN text}

\* the Jaccard index of two sets
Jaccard(S, T) == <<Cardinality(S \cap T), Cardinality(S \cup T)>>

C18_SimilaritySymmetric ==
    SimilarityReturned =>
        LET swapped == calculateSimilarity(unit.args[2], unit.args[1])
        IN  /\ SameRatio(unit.value, swapped)
            /\ MergeStrategy(unit.value) = MergeStrategy(swapped)

\* two texts with token sets of different sizes, scored in the middle band
C18_Witness ==
    /\ SimilarityReturned
    /\ Cardinality(Pieces(unit.args[1])) < Cardinality(Pieces(unit.args[2]))
    /\ Above70(unit.value) /\ ~Above90(unit.value)

\* C19: the similarity of any two texts is defined (the union is never
\* empty) and lies in [0,1], and a non-empty text scores 1 against itself.
C19_SimilarityBounds ==
    SimilarityReturned =>
        /\ unit.value[2] > 0
        /\ 0 <= unit.value[1]
        /\ unit.value[1] <= unit.value[2]
        /\ (unit.args[1] = unit.args[2] /\ unit.args[1] # EmptyString) =>
              unit.value[1] = unit.value[2]

\* a text of MaxLen words, one of them repeated, scored against itself
C19_Witness ==
    /\ SimilarityReturned
    /\ unit.args[1] = unit.args[2]
    /\ Len(unit.args[1]) = MaxLen
    /\ Cardinality(Pieces(unit.args[1])) < MaxLen
    /\ 0 \notin Pieces(unit.args[1])

DoubleLess(x, y) ==
    \/ x[1] * y[2] < y[1] * x[2]
    \/ x[1] * y[2] = y[1] * x[2] /\ x[3] * y[2] < y[3] * x[2]

DoubleLessEq(x, y) == ~DoubleLess(y, x)

\* the sums of the hundredths and of the rounding errors of the doubles
\* that a list of confidences denotes
RECURSIVE SumHundredths(_)
SumHundredths(cs) ==
    IF cs = << >> THEN 0 ELSE Head(cs) + SumHundredths(Tail(cs))

RECURSIVE SumErrors(_)
SumErrors(cs) ==
    IF cs = << >> THEN 0 ELSE DoubleOf(Head(cs))[3] + SumErrors(Tail(cs))

\* a single computation of an overall confidence of N >= 1 confidences has
\* returned
OverallReturned ==
    unit.fn = "overallConfidence" /\ unit.returned /\ Len(unit.args[1]) >= 1

C22_FailureReportHasDetail ==
    (pc = "raised" /\ ProviderFailed) =>
        {"segmentId", "provider", "cause"} \subseteq DOMAIN response

\* C24: in a returned response a segment is approved exactly when its
\* mergeStrategy is high_agreement; a verified_selection segment whose
\* arbiter call completed is needs-review; a low_agreement_flagged segment
\* and a segment whose arbiter call failed (confidence 0.75) are flagged.
C24_QaStatusFollowsStrategy ==
    pc = "returned" =>
        \A i \in DOMAIN response.translations :
            LET t == response.translations[i]
                m == t.metadata.mergeStrategy
            IN  /\ (t.qaStatus = "approved") <=> (m = "high_agreement")
                /\ (m = "verified_selection" /\ ~ArbiterFailed(i)) =>
                      t.qaStatus = "needs-review"
                /\ (m = "low_agreement_flagged") => t.qaStatus = "flagged"
                /\ (ArbiterFailed(i) \/ t.confidence = 75) =>
                      (t.qaStatus = "flagged" /\ t.confidence = 75 /\ ArbiterFailed(i))

\* a response with a needs-review segment and a segment flagged after its
\* arbiter call failed
C24_Witness ==
    /\ pc = "returned"
    /\ \E i, j \in DOMAIN response.translations :
          /\ response.translations[i].qaStatus = "needs-review"
          /\ response.translations[j].qaStatus = "flagged"
          /\ ArbiterFailed(j)

\* C28: the text of a merged translation is the translated text of one of
\* its two provider results and primaryModel is that provider's label; the
\* comparisonScore is the similarity of the two provider texts; and the
\* metadata carries the two provider results as the provider functions
\* returned them.
C28_MergedFromProviderResults ==
    \A i \in DOMAIN results :
        /\ CarriesA(i) \/ CarriesB(i)
        /\ results[i].comparisonScore =
              calculateSimilarity(results[i].metadata.gpt4Result.translatedText,
                                  results[i].metadata.geminiResult.translatedText)
        /\ \E a \in CallsOf("gpt4", i) :
              /\ calls[a].status = "fulfilled"
              /\ results[i].metadata.gpt4Result = calls[a].value
              /\ calls[a].value.model = "gpt-4"
        /\ \E b \in CallsOf("turbo", i) :
              /\ calls[b].status = "fulfilled"
              /\ results[i].metadata.geminiResult = calls[b].value
              /\ calls[b].value.model = "gpt-4-turbo"

\* one merge that took the second provider's text, which differs from the
\* first's, and a low-agreement merge that took the first's
C28_Witness ==
    \E i, j \in DOMAIN results :
        /\ CarriesB(i) /\ ~CarriesA(i)
        /\ results[j].metadata.mergeStrategy = "low_agreement_flagged"
        /\ results[j].text # EmptyString
        /\ CarriesA(j)

\* C30 as claimed: when translateWithContext has settled, returned or
\* raised, none of the calls it issued is still in flight.
C30_NothingInFlightWhenSettled ==
    pc \in {"returned", "raised"} =>
        \A c \in DOMAIN calls : calls[c].status # "inflight"

\* the words-per-minute entry of each supported language, by its code
OwnSpeechRate ==
    [ es |-> 180, zh |-> 160, ru |-> 184, bn |-> 170, ht |-> 175,
      ko |-> 170, ar |-> 165, ur |-> 170, fr |-> 195, pl |-> 190 ]

\* C27 as claimed: for each of the ten supported languages the estimated
\* duration of a provider result is wordCount / wpm x 60 with wpm the
\* language's own entry of the table (160 for Chinese); the default 175 is
\* used only for a language without an entry.
C27_DurationUsesOwnRate ==
    (unit.fn = "estimateDuration" /\ unit.returned) =>
        LET code == unit.args[2]
            wpm == IF code \in DOMAIN OwnSpeechRate
                   THEN OwnSpeechRate[code] ELSE 175
        IN  SameRatio(unit.value.estimatedDuration,
                      <<unit.value.wordCount * 60, wpm>>)

\* the loop of translateWithContext computes the merges of its segments:
\* each result is mergeTranslations of the two provider results of its
\* segment and of what the arbiter call of the segment, if any, resolved to
LoopComputesMerges ==
    \A i \in DOMAIN results :
        \E a \in CallsOf("gpt4", i) : \E b \in CallsOf("turbo", i) :
            results[i] =
                mergeTranslations(calls[a].value, calls[b].value,
                    IF ArbiterCalls(i) = {} THEN NoVerification
                    ELSE calls[CHOOSE c \in ArbiterCalls(i) : TRUE].value)

\* C26: batchTranslate works through consecutive chunks of at most 5
\* segments, one at a time, and ends as one translateWithContext call on
\* the whole list would for the same responses: it resolves to the same
\* merged translations in input order, and it rejects, delivering nothing,
\* exactly when that call would raise.
C26_BatchEqualsWhole ==
    unit.fn = "batchTranslate" =>
        LET segs == unit.args[1]
            progress == unit.value
            whole == translateWithContext(segs, unit.args[2], unit.args[3])
            done == IF progress.i < Len(segs) THEN progress.i ELSE Len(segs)
        IN  /\ progress.i % batchSize = 0
            /\ progress.outcome = "pending" <=> ~unit.returned
            /\ progress.outcome = "pending" =>
                  /\ Len(progress.results) = done
                  /\ progress.results =
                        translateWithContext(SubSeq(segs, 1, done),
                                             SubSeq(unit.args[2], 1, done),
                                             unit.args[3]).results
            /\ progress.outcome = "rejected" <=> (unit.returned /\ whole.raised)
            /\ progress.outcome = "fulfilled" =>
                  /\ ~whole.raised
                  /\ progress.results = whole.results
                  /\ Len(progress.results) = Len(segs)

\* a list of more than 5 segments translated in two chunks, the first
\* segment of the second chunk after an arbiter call
C26_Witness ==
    /\ unit.fn = "batchTranslate"
    /\ unit.returned
    /\ unit.value.outcome = "fulfilled"
    /\ Len(unit.args[1]) > batchSize
    /\ unit.value.results[batchSize + 1].metadata.mergeStrategy = "verified_selection"
    /\ unit.value.results[1].metadata.mergeStrategy = "high_agreement"

\* the audio requests sent in a step
NewAudio == (DOMAIN review'.audio) \ (DOMAIN review.audio)

\* the translation with a given id has the status 'approved'
IsApproved(translations, id) ==
    \E i \in DOMAIN translations :
        translations[i].id = id /\ translations[i].qaStatus = "approved"

\* C23: an audio request is sent only from a state in which every
\* translation has qaStatus 'approved', and a segment whose translation is
\* not approved in that state is not among the segments of the request, so
\* its text does not reach speech synthesis.
C23_OnlyApprovedTextSynthesised ==
    [][\A k \in NewAudio :
          /\ ~GenerateAudioDisabled(review.translations)
          /\ \A j \in DOMAIN review'.audio[k] :
                IsApproved(review.translations, review'.audio[k][j].id)]_vars

\* in the frontend the Generate Audio button guards the request: every
\* audio request of App.tsx leaves a state in which all translations are
\* approved and carries the texts of that state
AppSynthesisesOnlyApproved ==
    [][review.client = "app" =>
          \A k \in NewAudio :
              /\ ~GenerateAudioDisabled(review.translations)
              /\ review'.audio[k] = AudioSegments(review.translations)]_vars

\* C29: once a translation is edited its status is 'edited' and Generate
\* Audio is disabled; the status becomes 'approved' again only by an
\* approve action made on the edited text, that is by the success of an
\* approve request sent while the text now approved was shown; an approve
\* request that fails leaves every status as it was.
C29_EditedNeedsNewApproval ==
    [][\A i \in DOMAIN review.translations :
          (review.translations[i].qaStatus = "edited"
              /\ review'.translations[i].qaStatus = "approved")
          => \E k \in DOMAIN review.approving :
                /\ review.approving[k].segmentId = review.translations[i].id
                /\ review.approving[k].shown = review.translations[i].translation
                /\ review'.approving = Without(review.approving, k)]_vars

\* an edit leaves its segment 'edited', whatever it was, and Generate Audio
\* disabled
EditDisablesGenerateAudio ==
    [][\A i \in DOMAIN review.translations :
          review'.translations[i].translation # review.translations[i].translation
          => /\ review'.translations[i].qaStatus = "edited"
             /\ GenerateAudioDisabled(review'.translations)]_vars

\* a step that approves nothing and edits nothing leaves the statuses alone
FailedApproveKeepsStatus ==
    [][(\E k \in DOMAIN review.approving : ApproveReject(k))
          => review'.translations = review.translations]_vars

\* the two requests: the running one and the suspended one
Requests == { [id |-> RunningId] @@ Locals, suspended }

\* the calls of a request made for a segment, by kind
RequestCalls(request, kind, i) ==
    {c \in DOMAIN request.calls :
        request.calls[c].kind = kind /\ request.calls[c].seg = i}

\* the merge of the i-th segment of a request, from what the API calls of
\* that request for that segment answered, in the language of the request
OwnMerge(request, i) ==
    LET language == LanguageName(ConcurrentCode(request.id))
        a == CHOOSE c \in RequestCalls(request, "gpt4", i) : TRUE
        b == CHOOSE c \in RequestCalls(request, "turbo", i) : TRUE
        v == RequestCalls(request, "verify", i)
    IN  mergeTranslations(
            translateWithGPT4(request.calls[a].value.translatedText, language),
            translateWithGPT4Turbo(request.calls[b].value.translatedText, language),
            IF v = {} THEN NoVerification
            ELSE request.calls[CHOOSE c \in v : TRUE].value)

\* C25: while two translateWithContext invocations are interleaved on the
\* one service instance, each works on the segments and the language of
\* its own request only: every result it has is the merge of the answers
\* to its own calls for the segment at that position, its calls are calls
\* for its own segments, and when it returns the response lists exactly
\* those merges under the ids of its own segments in their order.
C25_InvocationsDoNotInterfere ==
    \A request \in Requests :
        request.pc \notin {"idle", "rejected"} =>
            /\ request.segments \in ConcurrentSegmentLists(request.id)
            /\ request.targetLanguage = LanguageName(ConcurrentCode(request.id))
            /\ \A c \in DOMAIN request.calls :
                  request.calls[c].seg \in 1..request.idx
            /\ \A k \in ProviderKinds : \A i \in 1..request.idx :
                  Cardinality(RequestCalls(request, k, i)) = 1
            /\ Len(request.results) \in {request.idx - 1, request.idx}
            /\ \A i \in DOMAIN request.results :
                  request.results[i] = OwnMerge(request, i)
            /\ request.pc = "returned" =>
                  /\ Len(request.results) = Len(request.segments)
                  /\ request.response
                       = SuccessResponse(request.segments, request.results)
                  /\ \A i \in DOMAIN request.segments :
                        request.response.translations[i].id
                            = request.segments[i].id

\* one request returned its two segments while the other, which has merged
\* its first segment, still waits for the arbiter of its second
C25_Witness ==
    /\ pc = "returned"
    /\ Len(results) = MaxSegs
    /\ suspended.pc = "awaitArbiter"
    /\ Len(suspended.results) = 1
    /\ \E c \in DOMAIN suspended.calls : suspended.calls[c].status = "inflight"

====
